---- MODULE Spec2Model ----
(***************************************************************************)
(* Model of the AI-code detection engine (src/src/lib/aiDetection.ts).     *)
(*                                                                         *)
(* Text is a string, read character by character with SubSeq.  The rule   *)
(* tables are regular expressions,                                         *)
(* written here as syntax trees and run by a backtracking matcher that    *)
(* reports the end of the first match in the order a backtracking engine  *)
(* tries them, because RegExp.prototype.test on a /g matcher stores that  *)
(* end in the matcher's lastIndex and starts the next test from there.    *)
(* Confidences and scores are exact rationals <<numerator, denominator>>. *)
(***************************************************************************)
EXTENDS Integers, Sequences, FiniteSets, TLC

-----------------------------------------------------------------------------
(* Characters and strings *)

\* The character of s at 1-based position i.
At(s, i) == SubSeq(s, i, i)
SetOf(str) == {At(str, i) : i \in 1..Len(str)}

LowerSeq == "abcdefghijklmnopqrstuvwxyz"
UpperSeq == "ABCDEFGHIJKLMNOPQRSTUVWXYZ"
Lower == SetOf(LowerSeq)
Upper == SetOf(UpperSeq)
Digit == {"0", "1", "2", "3", "4", "5", "6", "7", "8", "9"}
Letter == Lower \cup Upper
Word == Letter \cup Digit \cup {"_"}
WS == {" ", "\t", "\n", "\r", "\f"}
LineTerm == {"\n", "\r"}

\* Canonicalize of the /i flag (ASCII): a lower-case letter becomes upper case.
ToUpper == [c \in Lower |-> At(UpperSeq, CHOOSE i \in 1..26 : At(LowerSeq, i) = c)]
ToLower == [c \in Upper |-> At(LowerSeq, CHOOSE i \in 1..26 : At(UpperSeq, i) = c)]
Canon(c) == IF c \in Lower THEN ToUpper[c] ELSE c
\* The other character with the same canonical form, if there is one.
OtherCase(c) == IF c \in Lower THEN ToUpper[c] ELSE IF c \in Upper THEN ToLower[c] ELSE c

\* String.prototype.trim: strips white space and line terminators at both ends.
RECURSIVE TrimLeft(_)
TrimLeft(s) == IF s # "" /\ At(s, 1) \in WS THEN TrimLeft(SubSeq(s, 2, Len(s))) ELSE s
RECURSIVE TrimRight(_)
TrimRight(s) ==
    IF s # "" /\ At(s, Len(s)) \in WS THEN TrimRight(SubSeq(s, 1, Len(s) - 1)) ELSE s
Trim(s) == TrimRight(TrimLeft(s))

\* String.prototype.split('\n'): always at least one piece.
RECURSIVE Split(_)
Split(s) ==
    IF \E i \in 1..Len(s) : At(s, i) = "\n"
    THEN LET i == CHOOSE k \in 1..Len(s) :
                      At(s, k) = "\n" /\ \A m \in 1..(k - 1) : At(s, m) # "\n"
         IN  <<SubSeq(s, 1, i - 1)>> \o Split(SubSeq(s, i + 1, Len(s)))
    ELSE <<s>>

\* Array.prototype.join('\n'), the inverse the callers use to build the text.
RECURSIVE Join(_)
Join(ls) ==
    IF Len(ls) = 0 THEN ""
    ELSE IF Len(ls) = 1 THEN ls[1]
    ELSE ls[1] \o "\n" \o Join(Tail(ls))

-----------------------------------------------------------------------------
(* Regular expressions: syntax trees *)

C(set) == [t |-> "set", s |-> set]            \* [...]
N(set) == [t |-> "nset", s |-> set]           \* [^...]
Dot == [t |-> "nset", s |-> LineTerm]         \* . without the s flag
AnyChar == [t |-> "nset", s |-> {}]           \* . with the s flag, [\s\S]
L(str) == [t |-> "lit", w |-> str]
Cat(rs) == [t |-> "cat", rs |-> rs]
Alt(rs) == [t |-> "alt", rs |-> rs]
Star(r) == [t |-> "star", r |-> r]            \* r*   (greedy)
StarLazy(r) == [t |-> "lazy", r |-> r]        \* r*?
Plus(r) == Cat(<<r, Star(r)>>)                \* r+
NegLook(r) == [t |-> "neg", r |-> r]          \* (?!r)
WordB == [t |-> "wordb"]                      \* \b
Bol == [t |-> "bol"]                          \* ^
Eol == [t |-> "eol"]                          \* $
RECURSIVE Copies(_, _)
Copies(r, n) == IF n = 0 THEN <<>> ELSE <<r>> \o Copies(r, n - 1)
AtLeast(r, n) == Cat(Copies(r, n) \o <<Star(r)>>)   \* r{n,}

\* A RegExp object: tree plus the flags g (global), i (ignoreCase), m (multiline).
RegExp(ast, flags) ==
    [ast |-> ast, g |-> "g" \in SetOf(flags), i |-> "i" \in SetOf(flags),
     m |-> "m" \in SetOf(flags)]

-----------------------------------------------------------------------------
(* The backtracking matcher.  Positions are 0-based offsets into s.        *)

RECURSIVE ConcatAll(_, _)
ConcatAll(seqs, k) == IF k > Len(seqs) THEN <<>> ELSE seqs[k] \o ConcatAll(seqs, k + 1)

\* Keep the first occurrence of every element (the continuation of a match
\* depends on its end only, so a repeated end adds nothing).
RECURSIVE Dedup(_, _)
Dedup(q, seen) ==
    IF q = <<>> THEN <<>>
    ELSE IF Head(q) \in seen THEN Dedup(Tail(q), seen)
    ELSE <<Head(q)>> \o Dedup(Tail(q), seen \cup {Head(q)})

InClass(c, set, re) == c \in set \/ (re.i /\ OtherCase(c) \in set)
SameChar(c, d, re) == IF re.i THEN Canon(c) = Canon(d) ELSE c = d
IsWordAt(s, i) == i >= 1 /\ i <= Len(s) /\ At(s, i) \in Word

\* Ends(r, s, i, re): the offsets where a match of r starting at offset i can
\* end, in the order backtracking tries them.
RECURSIVE Ends(_, _, _, _)
RECURSIVE EndsCat(_, _, _, _, _)
RECURSIVE EndsStar(_, _, _, _)
RECURSIVE EndsLazy(_, _, _, _)
Ends(r, s, i, re) ==
    CASE r.t = "set" -> IF i < Len(s) /\ InClass(At(s, i + 1), r.s, re) THEN <<i + 1>> ELSE <<>>
      [] r.t = "nset" -> IF i < Len(s) /\ ~InClass(At(s, i + 1), r.s, re) THEN <<i + 1>> ELSE <<>>
      [] r.t = "lit" ->
            IF /\ i + Len(r.w) <= Len(s)
               /\ \A k \in 1..Len(r.w) : SameChar(At(s, i + k), At(r.w, k), re)
            THEN <<i + Len(r.w)>> ELSE <<>>
      [] r.t = "cat" -> EndsCat(r.rs, 1, s, i, re)
      [] r.t = "alt" -> Dedup(ConcatAll([k \in 1..Len(r.rs) |-> Ends(r.rs[k], s, i, re)], 1), {})
      [] r.t = "star" -> EndsStar(r.r, s, i, re)
      [] r.t = "lazy" -> EndsLazy(r.r, s, i, re)
      [] r.t = "neg" -> IF Ends(r.r, s, i, re) = <<>> THEN <<i>> ELSE <<>>
      [] r.t = "wordb" -> IF IsWordAt(s, i) # IsWordAt(s, i + 1) THEN <<i>> ELSE <<>>
      [] r.t = "bol" -> IF i = 0 \/ (re.m /\ At(s, i) \in LineTerm) THEN <<i>> ELSE <<>>
      [] r.t = "eol" -> IF i = Len(s) \/ (re.m /\ At(s, i + 1) \in LineTerm) THEN <<i>> ELSE <<>>
EndsCat(rs, k, s, i, re) ==
    IF k > Len(rs) THEN <<i>>
    ELSE LET first == Ends(rs[k], s, i, re)
         IN  Dedup(ConcatAll([n \in 1..Len(first) |-> EndsCat(rs, k + 1, s, first[n], re)], 1), {})
\* A repeated character class consumes a run of characters: Run is its length.
Run(r, s, i, re) ==
    LET fits(k) == \A j \in 1..k : Ends(r, s, i + j - 1, re) # <<>>
    IN  CHOOSE k \in 0..(Len(s) - i) :
            fits(k) /\ (k = Len(s) - i \/ Ends(r, s, i + k, re) = <<>>)
EndsStar(r, s, i, re) ==
    IF r.t \in {"set", "nset"}
    THEN LET n == Run(r, s, i, re) IN [k \in 1..(n + 1) |-> i + n + 1 - k]
    ELSE LET once == Ends(r, s, i, re)
             more == [n \in 1..Len(once) |->
                         IF once[n] > i THEN EndsStar(r, s, once[n], re) ELSE <<>>]
         IN  Dedup(ConcatAll(more, 1) \o <<i>>, {})
EndsLazy(r, s, i, re) ==
    IF r.t \in {"set", "nset"}
    THEN LET n == Run(r, s, i, re) IN [k \in 1..(n + 1) |-> i + k - 1]
    ELSE LET once == Ends(r, s, i, re)
             more == [n \in 1..Len(once) |->
                         IF once[n] > i THEN EndsLazy(r, s, once[n], re) ELSE <<>>]
         IN  Dedup(<<i>> \o ConcatAll(more, 1), {})

\* The first match at or after offset from: leftmost start, then the first end.
Exec(re, s, from) ==
    LET starts == {i \in from..Len(s) : Ends(re.ast, s, i, re) # <<>>}
    IN  IF starts = {} THEN [found |-> FALSE, index |-> 0, end |-> 0]
        ELSE LET first == CHOOSE i \in starts : \A j \in starts : i <= j
             IN  [found |-> TRUE, index |-> first, end |-> Head(Ends(re.ast, s, first, re))]

\* String.prototype.match(re) for a matcher without the g flag, as a truth value.
Matches(re, s) == Exec(re, s, 0).found

\* RegExp.prototype.test: a /g matcher starts at its lastIndex and leaves the
\* end of the match there (0 after a failure); other matchers start at 0 and
\* never write lastIndex.
Test(re, s, from) ==
    IF re.g
    THEN LET e == Exec(re, s, from)
         IN  IF e.found THEN [matched |-> TRUE, lastIndex |-> e.end]
             ELSE [matched |-> FALSE, lastIndex |-> 0]
    ELSE [matched |-> Matches(re, s), lastIndex |-> from]

-----------------------------------------------------------------------------
(* The rule tables *)

WSs == Star(C(WS))                 \* \s*
WSp == Plus(C(WS))                 \* \s+
Ws == Plus(C(Word))                \* \w+
NotParen == Star(N({")"}))         \* [^)]*
Quote == C({"\"", "'"})            \* ["']

Rule(pattern, weight, reason, aiIndicator) ==
    [pattern |-> pattern, weight |-> weight, reason |-> reason, aiIndicator |-> aiIndicator]

\* Weights are in tenths (0.9 is 9).
AI_PATTERNS == <<
    Rule(RegExp(Alt(<<Cat(<<L("//"), WSs, L("Step"), WSs, Plus(C(Digit)), L(":")>>),
                      Cat(<<L("//"), WSs, Plus(C(Digit)), L(".")>>),
                      Cat(<<L("#"), WSs, L("Step"), WSs, Plus(C(Digit)), L(":")>>),
                      Cat(<<L("#"), WSs, Plus(C(Digit)), L(".")>>)>>), "gi"),
         9, "Contains step-by-step comments typical of AI explanations", TRUE),
    Rule(RegExp(Cat(<<L("#"), WSs,
                      Alt(<<L("Loop through"), L("Track if"),
                            Cat(<<L("Last"), Star(Dot), L("elements")>>),
                            L("Swap if"), L("If no"), L("Example usage"),
                            L("Original"), L("Sorted")>>)>>), "gi"),
         8, "Contains verbose explanatory comments typical of AI generation", TRUE),
    Rule(RegExp(Alt(<<L("Example usage"), L("if __name__ == \"__main__\":"),
                      L("# Example"), L("// Example")>>), "gi"),
         9, "Contains structured example usage typical of AI tutorials", TRUE),
    Rule(RegExp(Alt(<<Cat(<<L("#"), Star(Dot), L("already "),
                            Alt(<<L("in place"), L("sorted")>>)>>),
                      Cat(<<L("#"), Star(Dot), L("optimization")>>),
                      Cat(<<L("#"), Star(Dot), L("efficient")>>)>>), "gi"),
         8, "Contains optimization comments typical of AI explanations", TRUE),
    Rule(RegExp(Cat(<<WordB, Alt(<<L("nums"), L("arr"), L("swapped"), L("sorted_nums")>>),
                      WordB>>), "gi"),
         7, "Uses educational variable names typical of AI tutorials", TRUE),
    Rule(RegExp(Alt(<<Cat(<<L("print"), WSs, L("("), WSs, Quote, L("Original:")>>),
                      Cat(<<L("print"), WSs, L("("), WSs, Quote, L("Sorted:")>>)>>), "gi"),
         9, "Contains labeled output statements typical of AI examples", TRUE),
    Rule(RegExp(Cat(<<L("def"), WSp, Ws, WSs, L("("), NotParen, L("):"), WSs, L("\n"),
                      Star(AnyChar), L("return")>>), "s"),
         6, "Contains complete function with proper return statement", TRUE),
    Rule(RegExp(Cat(<<L("if"), Star(AnyChar), L(":"), WSs, L("\n"), Star(AnyChar),
                      L("else:"), WSs, L("\n"), Star(AnyChar), L("break")>>), "gs"),
         7, "Contains comprehensive conditional logic typical of AI", TRUE),
    Rule(RegExp(Cat(<<Bol, L("    "), C(Letter)>>), "gm"),
         3, "Perfect 4-space indentation consistency", TRUE),
    Rule(RegExp(Cat(<<L("print"), WSs, L("("), WSs,
                      NegLook(Alt(<<Cat(<<Quote, L("Original:")>>),
                                    Cat(<<Quote, L("Sorted:")>>)>>))>>), "gi"),
         6, "Contains debug print statements", FALSE),
    Rule(RegExp(Cat(<<Alt(<<L("TODO"), L("FIXME"), L("HACK"), L("XXX"), L("BUG")>>),
                      L(":")>>), "gi"),
         8, "Contains TODO/FIXME comments indicating human planning", FALSE),
    Rule(RegExp(Cat(<<L("#"), WSs, C(Lower), Star(N({"."} \cup Upper)), Eol>>), "gm"),
         4, "Contains casual comments typical of human code", FALSE),
    Rule(RegExp(Cat(<<WordB,
                      Alt(<<L("i"), L("j"), L("k"), L("n"), L("x"), L("y"), L("z"),
                            L("tmp"), L("temp"), L("val"), L("res"), L("data"), L("item")>>),
                      WordB>>), "g"),
         3, "Uses short variable names common in human code", FALSE),
    Rule(RegExp(Alt(<<AtLeast(C(WS), 5),
                      Cat(<<C(Letter), AtLeast(C(WS), 2), C(Letter)>>),
                      Cat(<<L("\t"), C(WS)>>),
                      Cat(<<C(WS), L("\t")>>)>>), "g"),
         6, "Has inconsistent spacing typical of human editing", FALSE),
    Rule(RegExp(Cat(<<Ws, L("["), Ws, L("]"), WSs, L("="), WSs, Ws, L("["), Ws, L("]")>>), "g"),
         2, "Direct assignments without explanatory comments", FALSE),
    Rule(RegExp(Cat(<<L("["), Star(Dot), L("64"), Star(Dot), L("25"), Star(Dot), L("12"),
                      Star(Dot), L("22"), Star(Dot), L("11"), Star(Dot), L("]")>>), "g"),
         4, "Contains hardcoded test values", TRUE)
>>

LANG_javascript == <<
    Rule(RegExp(Cat(<<L("console.log("), NotParen, L(")")>>), "g"),
         2, "Contains debug console.log statements", FALSE),
    Rule(RegExp(Cat(<<L("function"), WSp, Ws, WSs, L("("), NotParen, L(")"), WSs, L("{")>>), "g"),
         1, "Uses function declarations", TRUE)
>>
LANG_python == <<
    Rule(RegExp(Cat(<<L("print("), NotParen, L(")")>>), "g"),
         2, "Contains debug print statements", FALSE),
    Rule(RegExp(Cat(<<L("def"), WSp, Ws, WSs, L("("), NotParen, L("):")>>), "g"),
         1, "Uses function definitions", TRUE)
>>
LANG_typescript == <<
    Rule(RegExp(Cat(<<L(":"), WSs,
                      Alt(<<L("string"), L("number"), L("boolean"), L("any"), L("unknown"),
                            L("void"), L("never")>>), WordB>>), "g"),
         2, "Contains explicit type annotations", TRUE)
>>

\* The own keys of the LANGUAGE_PATTERNS object literal.
LanguageKeys == {"javascript", "python", "typescript"}
\* Keys every object literal inherits from Object.prototype: reading one yields
\* a function (or the prototype object), which is truthy and not iterable.
InheritedKeys == {"constructor", "toString", "valueOf", "hasOwnProperty", "__proto__"}

\* LANGUAGE_PATTERNS[language]: a rule list for an own key, a value that is
\* truthy but not iterable for an inherited member, undefined for any other
\* label.
LANGUAGE_PATTERNS(lang) ==
    CASE lang = "javascript" -> [truthy |-> TRUE, iterable |-> TRUE, rules |-> LANG_javascript]
      [] lang = "python" -> [truthy |-> TRUE, iterable |-> TRUE, rules |-> LANG_python]
      [] lang = "typescript" -> [truthy |-> TRUE, iterable |-> TRUE, rules |-> LANG_typescript]
      [] lang \in InheritedKeys -> [truthy |-> TRUE, iterable |-> FALSE, rules |-> <<>>]
      [] OTHER -> [truthy |-> FALSE, iterable |-> FALSE, rules |-> <<>>]

-----------------------------------------------------------------------------
(* Exact rationals <<n, d>> with d > 0, in lowest terms *)

RECURSIVE GCD(_, _)
GCD(a, b) == IF b = 0 THEN a ELSE GCD(b, a % b)
Q(n, d) == LET g == GCD(n, d) IN IF g = 0 THEN <<0, 1>> ELSE <<n \div g, d \div g>>
QAdd(a, b) == Q(a[1] * b[2] + b[1] * a[2], a[2] * b[2])
QLe(a, b) == a[1] * b[2] <= b[1] * a[2]
QLt(a, b) == a[1] * b[2] < b[1] * a[2]
QMin(a, b) == IF QLe(a, b) THEN a ELSE b
QMax(a, b) == IF QLe(a, b) THEN b ELSE a
RECURSIVE QSum(_)
QSum(qs) == IF qs = <<>> THEN <<0, 1>> ELSE QAdd(Head(qs), QSum(Tail(qs)))

-----------------------------------------------------------------------------
(* Numbers of lines 516-517: IEEE-754 binary64, as JavaScript computes them. *)
(* A value is a sequence of bits with fixed weights; every operation is      *)
(* the exact one followed by rounding to nearest, ties to even.              *)

\* The significand of a binary64 number, in bits.
Precision == 53
\* The weights of the bits of a value: 2^hi for the first, 2^lo for the last.
Fixed == [hi |-> 7, lo |-> -60]
Width == Fixed.hi - Fixed.lo + 1
WeightAt(k) == Fixed.hi + 1 - k
IndexOf(e) == Fixed.hi + 1 - e
Zero == [k \in 1..Width |-> 0]
Unit(e) == [k \in 1..Width |-> IF k = IndexOf(e) THEN 1 ELSE 0]

RECURSIVE Pow2(_)
Pow2(n) == IF n = 0 THEN 1 ELSE 2 * Pow2(n - 1)
\* a * 2^j mod t, the remainder of the long division after j fraction bits.
RECURSIVE Remainder(_, _, _)
Remainder(a, t, j) == IF j = 0 THEN a % t ELSE (2 * Remainder(a, t, j - 1)) % t
\* The binary expansion of a / t down to 2^lo, and whether more follows.
Quotient(a, t) ==
    [bits |-> [k \in 1..Width |->
                  IF WeightAt(k) >= 0 THEN ((a \div t) \div Pow2(WeightAt(k))) % 2
                  ELSE (2 * Remainder(a, t, -WeightAt(k) - 1)) \div t],
     inexact |-> Remainder(a, t, -Fixed.lo) # 0]

\* Bit k of a value; there is nothing but zeros beyond its ends.
Bit(v, k) == IF k \in DOMAIN v THEN v[k] ELSE 0

\* The carry out of bit k of u + v, rippling up from the last bit.
RECURSIVE CarryOut(_, _, _)
CarryOut(u, v, k) ==
    IF k > Width THEN 0 ELSE (Bit(u, k) + Bit(v, k) + CarryOut(u, v, k + 1)) \div 2
Add(u, v) == [k \in 1..Width |-> (Bit(u, k) + Bit(v, k) + CarryOut(u, v, k + 1)) % 2]
ShiftLeft(v, n) == [k \in 1..Width |-> Bit(v, k + n)]
LessEq(u, v) ==
    u = v \/ \E k \in 1..Width :
                 Bit(u, k) < Bit(v, k) /\ \A j \in 1..(k - 1) : Bit(u, j) = Bit(v, j)

\* Rounding of an exact value to Precision significant bits, ties to even.
Round(v, inexact) ==
    IF v = Zero THEN v
    ELSE LET lead == CHOOSE k \in 1..Width : Bit(v, k) = 1 /\ \A j \in 1..(k - 1) : Bit(v, j) = 0
             last == lead + Precision - 1
         IN  IF last >= Width THEN v
             ELSE LET rest == inexact \/ \E j \in (last + 2)..Width : Bit(v, j) = 1
                      up == Bit(v, last + 1) = 1 /\ (rest \/ Bit(v, last) = 1)
                      kept == [k \in 1..Width |-> IF k <= last THEN Bit(v, k) ELSE 0]
                  IN  IF up THEN Add(kept, Unit(WeightAt(last))) ELSE kept

\* a / t, x * 100 and x + y of two numbers.
Divide(a, t) == LET q == Quotient(a, t) IN Round(q.bits, q.inexact)
Times100(v) == Round(Add(Add(ShiftLeft(v, 6), ShiftLeft(v, 5)), ShiftLeft(v, 2)), FALSE)
NumAdd(u, v) == Round(Add(u, v), FALSE)
Hundred == Quotient(100, 1).bits

-----------------------------------------------------------------------------
(* The texts the calls are given *)

\* The longest text a call is given, in lines, when calls follow one another.
MaxLines == 3
\* The longest text of the single call of a freshly loaded module, in lines.
MaxCtxLines == 5

\* The lines the texts of successive calls are built from: an empty line, a
\* line of white space, a step comment, a debug print and the labelled print.
BlankLine == ""
SpaceLine == "  "
StepLine == "// Step 1: try"
DebugLine == "print(x)"
LabelLine == "print(\"Original:\", nums)"
Corpus == {BlankLine, SpaceLine, StepLine, DebugLine, LabelLine}

\* The language labels the calls use: an own key of the table, a label that
\* is no key at all, and a member every object inherits.
Languages == {"python", "text", "constructor"}

\* The lines the text of a single call is built from: an empty line, two
\* lines different rules call AI, a line no rule fires on, a placeholder name.
ReturnLine == "return arr"
PlainLine == "total = f(a)"
TmpLine == "tmp = x"
CtxCorpus == {BlankLine, StepLine, ReturnLine, PlainLine, TmpLine}
CtxLanguage == "text"

LinesUpTo(corpus, n) == UNION {[1..k -> corpus] : k \in 1..n}
Texts == {Join(ls) : ls \in LinesUpTo(Corpus, MaxLines)}
CtxTexts == {Join(ls) : ls \in LinesUpTo(CtxCorpus, MaxCtxLines)}

\* The trimmed non-blank lines.
Contents == {Trim(l) : l \in Corpus \cup CtxCorpus} \ {""}

-----------------------------------------------------------------------------
(* analyzeCodeStructure *)

\* line.match(/^\s*/)[0]: the leading white space of a line.
RECURSIVE Indent(_)
Indent(s) ==
    IF s # "" /\ At(s, 1) \in WS THEN At(s, 1) \o Indent(SubSeq(s, 2, Len(s))) ELSE ""

StartsWith(s, prefix) == Len(prefix) <= Len(s) /\ SubSeq(s, 1, Len(prefix)) = prefix

\* String.prototype.match with a /g matcher: the number of matches.
RECURSIVE CountMatches(_, _, _)
CountMatches(re, s, from) ==
    LET e == Exec(re, s, from)
    IN  IF ~e.found THEN 0
        ELSE 1 + CountMatches(re, s, IF e.end = e.index THEN e.end + 1 ELSE e.end)

CommentRe ==
    RegExp(Alt(<<Cat(<<L("/*"), StarLazy(AnyChar), L("*/")>>),
                 Cat(<<L("//"), Star(Dot), Eol>>)>>), "gm")
ErrorHandlingRe ==
    RegExp(Alt(<<L("try"), L("catch"), L("throw"), L("Error"), L("Exception")>>), "g")

NonBlank(s) == Trim(s) # ""

\* The loop over the non-blank lines: how many conform to the first indent seen.
RECURSIVE ConsistentIndentation(_, _)
ConsistentIndentation(lines, indentPattern) ==
    IF lines = <<>> THEN 0
    ELSE LET indent == Indent(Head(lines))
             pat == IF indentPattern = "" /\ indent # "" THEN indent ELSE indentPattern
         IN  (IF indent = pat \/ indent = "" \/ StartsWith(indent, pat) THEN 1 ELSE 0)
             + ConsistentIndentation(Tail(lines), pat)

\* The structure score in tenths.  A ratio x / 0 is NaN (no test passes) when
\* x = 0 and Infinity when x > 0.
StructureSum(n, consistent, comments, errorHandlingCount) ==
    LET s1 == IF n > 0 /\ 10 * consistent > 9 * n THEN 3 ELSE 0
        s2 == IF 10 * comments > 3 * n THEN 2 ELSE 0
        s3 == IF 10 * errorHandlingCount > n THEN 2 ELSE 0
        aiScore == s1 + s2 + s3
    IN  IF aiScore < 10 THEN aiScore ELSE 10

StructureOf(text, lines) ==
    StructureSum(Len(lines), ConsistentIndentation(lines, ""),
                 CountMatches(CommentRe, text, 0), CountMatches(ErrorHandlingRe, text, 0))

analyzeCodeStructure(text) == StructureOf(text, SelectSeq(Split(text), NonBlank))

-----------------------------------------------------------------------------
(* analyzeLine *)

PunctRe == RegExp(C(SetOf("{}();,")), "")
ImperfectRe == RegExp(N(Word \cup WS \cup SetOf("()[]{};:,.<>!@#$%^&*+=|\\?/-")), "")
QuirkyRe ==
    RegExp(Cat(<<WordB, Alt(<<L("foo"), L("bar"), L("baz"), L("qux"), L("quirky"),
                              L("magic"), L("hack"), L("wtf")>>), WordB>>), "i")

EmptyLineReason == "Empty line - neutral"
NeutralReason == "No significant patterns detected - neutral classification"
LongLineReason == "Very long line length typical of AI generation"
ShortLineReason == "Short, concise line suggests human writing"
PerfectReason == "Perfect syntax and structure"
QuirkyReason == "Uses creative or placeholder naming typical of humans"

\* The lastIndex of every module-level matcher after the module is loaded.
FreshLastIndex ==
    [general |-> [k \in 1..Len(AI_PATTERNS) |-> 0],
     javascript |-> [k \in 1..Len(LANG_javascript) |-> 0],
     python |-> [k \in 1..Len(LANG_python) |-> 0],
     typescript |-> [k \in 1..Len(LANG_typescript) |-> 0]]

\* The rules of a table: "general" is AI_PATTERNS, a language key its list.
Rules(table) == IF table = "general" THEN AI_PATTERNS ELSE LANGUAGE_PATTERNS(table).rules
Tables == {"general"} \cup LanguageKeys

\* Test for every rule, every trimmed line of the corpus and every lastIndex,
\* computed once.
TestMemo ==
    [table \in Tables |->
        [k \in 1..Len(Rules(table)) |->
            [content \in Contents |->
                [idx \in 0..Len(content) |->
                    Test(Rules(table)[k].pattern, content, idx)]]]]

\* pattern.pattern.test(content) for rule k of a table, from lastIndex idx.
RuleTest(table, k, content, idx) ==
    IF content \in Contents /\ idx <= Len(content)
    THEN TestMemo[table][k][content][idx]
    ELSE Test(Rules(table)[k].pattern, content, idx)

\* The body of a rule loop (lines 264-271, 277-284): what one rule adds to the
\* scores and the reasons once its test t is known.
ApplyRule(acc, k, rule, t) ==
    [aiScore |-> acc.aiScore + (IF t.matched /\ rule.aiIndicator THEN rule.weight ELSE 0),
     humanScore |-> acc.humanScore + (IF t.matched /\ ~rule.aiIndicator THEN rule.weight ELSE 0),
     reasons |-> IF t.matched THEN Append(acc.reasons, rule.reason) ELSE acc.reasons,
     idx |-> [acc.idx EXCEPT ![k] = t.lastIndex]]

\* One rule loop: tests the rules k.. of a table in order against content,
\* each matcher starting from and updating its own lastIndex.
RECURSIVE ApplyPatterns(_, _, _, _)
ApplyPatterns(table, k, content, acc) ==
    IF k > Len(Rules(table)) THEN acc
    ELSE ApplyPatterns(table, k + 1, content,
                       ApplyRule(acc, k, Rules(table)[k],
                                 RuleTest(table, k, content, acc.idx[k])))

\* LANGUAGE_PATTERNS[language] || []
LangPatterns(lang) ==
    LET found == LANGUAGE_PATTERNS(lang)
    IN  IF found.truthy THEN found ELSE [truthy |-> TRUE, iterable |-> TRUE, rules |-> <<>>]

\* Lines 311-327: the scores, the confidence and the verdict of a line whose
\* rule loops left l and whose heuristics fired as the four flags say.
Verdict(line, l, li, long, short, perfect, quirky) ==
    LET aiScore == l.aiScore + (IF long THEN 2 ELSE 0) + (IF perfect THEN 1 ELSE 0)
        humanScore == l.humanScore + (IF short THEN 1 ELSE 0) + (IF quirky THEN 3 ELSE 0)
        reasons == l.reasons
                   \o (IF long THEN <<LongLineReason>> ELSE <<>>)
                   \o (IF short THEN <<ShortLineReason>> ELSE <<>>)
                   \o (IF perfect THEN <<PerfectReason>> ELSE <<>>)
                   \o (IF quirky THEN <<QuirkyReason>> ELSE <<>>)
        totalScore == aiScore + humanScore
        raw == IF totalScore > 0
               THEN Q(IF aiScore > humanScore THEN aiScore ELSE humanScore, totalScore)
               ELSE <<1, 2>>
        confidence == QMin(QMax(raw, <<1, 10>>), <<19, 20>>)
    IN  [threw |-> FALSE, lastIndex |-> li,
         analysis |-> [content |-> line, isAI |-> aiScore > humanScore,
                       confidence |-> confidence,
                       reasons |-> IF reasons = <<>> THEN <<NeutralReason>> ELSE reasons]]

\* Lines 287-309: the heuristics on the length, the syntax and the naming.
Heuristics(line, content, l, li) ==
    Verdict(line, l, li,
            Len(content) > 120,
            Len(content) <= 120 /\ Len(content) < 20 /\ ~Matches(PunctRe, content),
            ~Matches(ImperfectRe, content) /\ Len(content) > 30,
            Matches(QuirkyRe, content))

\* The language loop is over: l is what it left, liG the lastIndex after the
\* general loop.
LanguageDone(line, content, lang, liG, l) ==
    Heuristics(line, content, l, [liG EXCEPT ![lang] = l.idx])

\* Lines 275-285: the loop over the rules of the language.  g is what the
\* general loop left, liG the lastIndex of the matchers after it.
LanguageLoop(line, content, lang, g, li, liG, langPatterns) ==
    IF ~langPatterns.iterable
    THEN [threw |-> TRUE, lastIndex |-> liG, analysis |-> <<>>]
    ELSE IF langPatterns.rules = <<>>
    THEN Heuristics(line, content, g, liG)
    ELSE LanguageDone(line, content, lang, liG,
                      ApplyPatterns(lang, 1, content, [g EXCEPT !.idx = li[lang]]))

\* Lines 262-272: the loop over the general rules.
GeneralLoop(line, content, lang, li, g) ==
    LanguageLoop(line, content, lang, g, li, [li EXCEPT !.general = g.idx],
                 LangPatterns(lang))

\* The line classifier.  li is the lastIndex of the shared matchers when the
\* call starts; the result carries their lastIndex when it ends.  threw is
\* the TypeError of a for...of over a value that is not iterable.
Classify(line, content, lang, li) ==
    IF content = ""
    THEN [threw |-> FALSE, lastIndex |-> li,
          analysis |-> [content |-> line, isAI |-> FALSE, confidence |-> <<1, 2>>,
                        reasons |-> <<EmptyLineReason>>]]
    ELSE GeneralLoop(line, content, lang, li,
                     ApplyPatterns("general", 1, content,
                                   [aiScore |-> 0, humanScore |-> 0, reasons |-> <<>>,
                                    idx |-> li.general]))

analyzeLine(line, lang, li) == Classify(line, Trim(line), lang, li)

-----------------------------------------------------------------------------
(* isCreativeHumanCode: its matchers are created anew by every call *)

creativePatterns == <<
    RegExp(Cat(<<Alt(<<L("TODO"), L("FIXME"), L("HACK"), L("XXX"), L("NOTE")>>), L(":")>>), "gi"),
    RegExp(Cat(<<WordB, Alt(<<L("foo"), L("bar"), L("baz"), L("qux"), L("quirky"), L("magic"),
                              L("hack"), L("wtf"), L("temp"), L("tmp")>>), WordB>>), "i"),
    RegExp(Cat(<<L("console.log("),
                 NegLook(Alt(<<Cat(<<Star(Dot), L("Result:")>>),
                               Cat(<<Star(Dot), L("Error:")>>),
                               Cat(<<Star(Dot), L("Usage:")>>)>>))>>), ""),
    RegExp(Cat(<<L("//"), WSs, Alt(<<L("FIXME"), L("TODO"), L("HACK"), L("NOTE")>>)>>), "i"),
    RegExp(Cat(<<L("//"), WSs, C(Lower), Star(N({"."} \cup Upper)), Eol>>), ""),
    RegExp(Alt(<<L("???"), L("!!!"), Cat(<<L("..."), Eol>>)>>), ""),
    RegExp(Cat(<<L("//"), WSs, Alt(<<L("lol"), L("wtf"), L("omg"), L("meh"), L("ugh")>>)>>), "i")
>>

\* Line 344: creativePatterns.some(pattern => pattern.test(content)), on
\* RegExp objects made by the call, and computed once for the lines of the
\* texts.
Creative(content) ==
    \E k \in 1..Len(creativePatterns) : Test(creativePatterns[k], content, 0).matched
CreativeMemo == [content \in Contents |-> Creative(content)]
CreativeOf(content) ==
    IF content \in DOMAIN CreativeMemo THEN CreativeMemo[content] ELSE Creative(content)

isCreativeHumanCode(line) == CreativeOf(Trim(line))

-----------------------------------------------------------------------------
(* applyContextualAnalysis *)

SandwichReason == "Line sandwiched between AI-generated code blocks"
ExtendedReason == "Part of extended AI-generated code block"

\* Lines 434-436 without the floor of 0.8 on the confidence: a variant the
\* sandwich rule must be told apart from.
SandwichKeepingConfidence(currentLine) ==
    [currentLine EXCEPT !.isAI = TRUE, !.reasons = Append(@, SandwichReason)]

\* Lines 434-436: what the sandwich rule does to the line it flips.
Sandwich(currentLine) ==
    [currentLine EXCEPT !.isAI = TRUE,
                        !.confidence = QMax(@, <<4, 5>>),
                        !.reasons = Append(@, SandwichReason)]

\* Lines 433 and 459 without the call of isCreativeHumanCode: a variant the
\* protection of the creative lines must be told apart from.
OverridableAlways(line) == TRUE

\* Lines 433 and 459: !isCreativeHumanCode(line.content), the guard of both
\* flips.
Overridable(line) == ~isCreativeHumanCode(line.content)

\* Line 431 reading the line before only: a variant in which a flip of the
\* sandwich loop makes the next line flip.
FollowsAI(prevLine, nextLine) == prevLine.isAI

\* Line 431: the lines before and after are AI lines, as the array has them
\* when the loop reaches the line between them.
Surrounded(prevLine, nextLine) == prevLine.isAI /\ nextLine.isAI

\* The first loop (sandwich rule), in place: i is the 1-based index of the
\* current line and la already holds the flips made to earlier lines.
RECURSIVE PassALoop(_, _)
PassALoop(la, i) ==
    IF i > Len(la) - 1 THEN la
    ELSE LET currentLine == la[i]
             prevLine == la[i - 1]
             nextLine == la[i + 1]
         IN  IF /\ NonBlank(currentLine.content)
                /\ ~currentLine.isAI /\ Surrounded(prevLine, nextLine)
                /\ Overridable(currentLine)
             THEN PassALoop([la EXCEPT ![i] = Sandwich(currentLine)], i + 1)
             ELSE PassALoop(la, i + 1)
PassA(la) == PassALoop(la, 2)

\* The look-ahead of the second loop: an AI line among the next three entries.
AIContinues(la, i) ==
    \E j \in (i + 1)..(IF i + 3 < Len(la) THEN i + 3 ELSE Len(la)) :
        NonBlank(la[j].content) /\ la[j].isAI

\* Line 454 with the boost starting one line early: a variant the run
\* extension must be told apart from.
BoostFromSecond(consecutiveAICount) == consecutiveAICount >= 2

\* Line 454: the boost is due from the third line of a run on.
BoostDue(consecutiveAICount) == consecutiveAICount >= 3

\* Line 475 counting the line the loop has just flipped as one more line of
\* the run: a variant the reset of the counter must be told apart from.
CountingTheFlip(consecutiveAICount, flipped) ==
    IF flipped THEN consecutiveAICount + 1 ELSE 0

\* Line 475: the counter after a line that was HUMAN when reached, flipped
\* or not.
AfterHuman(consecutiveAICount, flipped) == 0

\* The second loop (run extension), in place.
RECURSIVE PassBLoop(_, _, _)
PassBLoop(la, i, consecutiveAICount) ==
    IF i > Len(la) THEN la
    ELSE LET line == la[i] IN
         IF ~NonBlank(line.content) THEN PassBLoop(la, i + 1, 0)
         ELSE IF line.isAI
         THEN IF BoostDue(consecutiveAICount + 1)
              THEN PassBLoop([la EXCEPT ![i].confidence = QMin(QAdd(@, <<1, 10>>), <<19, 20>>)],
                             i + 1, consecutiveAICount + 1)
              ELSE PassBLoop(la, i + 1, consecutiveAICount + 1)
         ELSE IF /\ consecutiveAICount >= 2
                 /\ Overridable(line)
                 /\ AIContinues(la, i)
              THEN PassBLoop([la EXCEPT ![i] =
                                 [line EXCEPT !.isAI = TRUE,
                                              !.confidence = QMax(@, <<3, 4>>),
                                              !.reasons = Append(@, ExtendedReason)]],
                             i + 1, AfterHuman(consecutiveAICount, TRUE))
              ELSE PassBLoop(la, i + 1, AfterHuman(consecutiveAICount, FALSE))
PassB(la) == PassBLoop(la, 1, 0)

\* Lines 418-478 returning the non-blank entries only: a variant the frame
\* of the refiner must be told apart from.
IsKeptEntry(l) == NonBlank(l.content)
RefineNonBlankOnly(la) == SelectSeq(PassB(PassA(la)), IsKeptEntry)

\* Lines 418-478: the two loops, one after the other, on the same array.
applyContextualAnalysis(la) == PassB(PassA(la))

-----------------------------------------------------------------------------
(* detectAIBlocks *)

getConfidenceLevel(confidence, isAI) ==
    IF isAI
    THEN IF QLe(<<17, 20>>, confidence) THEN "Strongly AI"
         ELSE IF QLe(<<7, 10>>, confidence) THEN "Moderate AI"
         ELSE IF QLe(<<3, 5>>, confidence) THEN "Likely AI"
         ELSE "Uncertain"
    ELSE IF QLe(<<17, 20>>, confidence) THEN "Strongly Human"
         ELSE IF QLe(<<7, 10>>, confidence) THEN "Likely Human"
         ELSE "Uncertain"

QMean(qs) == LET sum == QSum(qs) IN Q(sum[1], sum[2] * Len(qs))

NoBlock == [open |-> FALSE]

\* Lines 377 and 402 accepting a block of one line: a variant the block
\* invariant must be told apart from.
MeaningfulFromOne(currentBlock) ==
    currentBlock.open /\ Len(currentBlock.confidences) >= 1

\* Lines 377 and 402: the current block exists and holds two lines.
Meaningful(currentBlock) ==
    currentBlock.open /\ Len(currentBlock.confidences) >= 2

\* blocks.push(...) of the current block when it is meaningful.
SaveBlock(blocks, currentBlock) ==
    IF Meaningful(currentBlock)
    THEN LET avgConfidence == QMean(currentBlock.confidences)
         IN  Append(blocks,
                    [startLine |-> currentBlock.start, endLine |-> currentBlock.end,
                     confidenceLevel |-> getConfidenceLevel(avgConfidence, currentBlock.isAI),
                     confidence |-> avgConfidence,
                     reasons |-> currentBlock.reasons])
    ELSE blocks

\* Line 368 skipping nothing, so that an empty line ends the block before
\* it: a variant the separation of the blocks must be told apart from.
SkippedNever(line) == FALSE

\* Line 368: empty lines are skipped by the block loop.
Skipped(line) == ~NonBlank(line.content)

RECURSIVE BlockLoop(_, _, _, _)
BlockLoop(la, i, blocks, currentBlock) ==
    IF i > Len(la) THEN SaveBlock(blocks, currentBlock)
    ELSE LET line == la[i] IN
         IF Skipped(line) THEN BlockLoop(la, i + 1, blocks, currentBlock)
         ELSE IF currentBlock.open /\ currentBlock.isAI = line.isAI
         THEN BlockLoop(la, i + 1, blocks,
                        [currentBlock EXCEPT !.end = i,
                                             !.confidences = Append(@, line.confidence),
                                             !.reasons = Dedup(@ \o line.reasons, {})])
         ELSE BlockLoop(la, i + 1, SaveBlock(blocks, currentBlock),
                        [open |-> TRUE, start |-> i, end |-> i, isAI |-> line.isAI,
                         confidences |-> <<line.confidence>>,
                         reasons |-> Dedup(line.reasons, {})])

detectAIBlocks(la) == BlockLoop(la, 1, <<>>, NoBlock)

-----------------------------------------------------------------------------
(* analyzeCode *)

\* Line 511 keeping every line: a variant the statistics of an input of
\* blank lines must be told apart from.
IsAnyLine(l) == TRUE

\* Line 511: the filter of the lines that are not empty.
IsNonEmpty(l) == NonBlank(l.content)

\* Line 512 counting the lines by their confidence: a variant the counts of
\* the result must be told apart from.
IsConfidentLine(l) == QLt(<<1, 2>>, l.confidence)

\* Line 512: the filter of the AI lines.
IsAILine(l) == l.isAI

\* (count / total) * 100 for the line counts of the texts, computed once.
MaxTotal == IF MaxLines > MaxCtxLines THEN MaxLines ELSE MaxCtxLines
PercentageMemo ==
    [total \in 1..MaxTotal |-> [count \in 0..total |-> Times100(Divide(count, total))]]
\* Lines 516-517 without the factor 100: a variant the sum of the
\* percentages must be told apart from.
Fraction(count, total) == IF total = 0 THEN Zero ELSE Divide(count, total)

\* Lines 516-517: total > 0 ? (count / total) * 100 : 0.
Percentage(count, total) ==
    IF total = 0 THEN Zero
    ELSE IF total <= MaxTotal /\ count \in 0..total THEN PercentageMemo[total][count]
    ELSE Times100(Divide(count, total))

\* Lines 510-534: the statistics and the returned object.
Statistics(la, blocks) ==
    LET nonEmptyLines == SelectSeq(la, IsNonEmpty)
        aiLines == Len(SelectSeq(nonEmptyLines, IsAILine))
        humanLines == Len(nonEmptyLines) - aiLines
        totalLines == Len(nonEmptyLines)
    IN  [totalLines |-> totalLines, aiLines |-> aiLines, humanLines |-> humanLines,
         aiPercentage |-> Percentage(aiLines, totalLines),
         humanPercentage |-> Percentage(humanLines, totalLines),
         overallConfidence |->
             IF Len(nonEmptyLines) > 0
             THEN QMean([k \in 1..Len(nonEmptyLines) |-> nonEmptyLines[k].confidence])
             ELSE <<1, 2>>,
         lineAnalysis |-> la, aiBlocks |-> blocks]

\* Lines 494-499 without the cap of line 497: a variant the bounds of the
\* confidence must be told apart from.
AdjustWithoutCap(analysis, structureScore) ==
    IF structureScore > 5 /\ analysis.isAI
    THEN [analysis EXCEPT !.confidence = QAdd(@, <<1, 10>>)]
    ELSE analysis

\* Lines 494-499 without the test of line 496: a variant that also raises
\* the HUMAN and the blank lines.
AdjustEveryLine(analysis, structureScore) ==
    IF structureScore > 5
    THEN [analysis EXCEPT !.confidence = QMin(QAdd(@, <<1, 10>>), <<19, 20>>)]
    ELSE analysis

\* Lines 494-499: the structure-bias adjustment of one classified line.
AdjustForStructure(analysis, structureScore) ==
    IF structureScore > 5 /\ analysis.isAI
    THEN [analysis EXCEPT !.confidence = QMin(QAdd(@, <<1, 10>>), <<19, 20>>)]
    ELSE analysis

\* Lines 490-502: the loop over the lines, threading the matchers' lastIndex.
LineStep(acc, r, structureScore) ==
    [threw |-> r.threw, lastIndex |-> r.lastIndex,
     lineAnalysis |-> IF r.threw THEN acc.lineAnalysis
                      ELSE Append(acc.lineAnalysis,
                                  AdjustForStructure(r.analysis, structureScore))]

RECURSIVE LineLoop(_, _, _, _, _)
LineLoop(lines, i, lang, structureScore, acc) ==
    IF i > Len(lines) \/ acc.threw THEN acc
    ELSE LineLoop(lines, i + 1, lang, structureScore,
                  LineStep(acc, analyzeLine(lines[i], lang, acc.lastIndex), structureScore))

\* analyzeCodeStructure for every text of the calls, computed once.
StructureMemo == [text \in Texts |-> analyzeCodeStructure(text)]
StructureScore(text) ==
    IF text \in DOMAIN StructureMemo THEN StructureMemo[text] ELSE analyzeCodeStructure(text)

ClassifyLines(text, lang, li) ==
    LineLoop(Split(text), 1, lang, StructureScore(text),
             [threw |-> FALSE, lastIndex |-> li, lineAnalysis |-> <<>>])

-----------------------------------------------------------------------------
(* analyzeCode, lines 484-534: what the call computes once its delay is over *)

\* Lines 507-534: the blocks, the statistics and the returned object.  c is
\* what the line loop left, refined the array the refiner returned.
Returned(c, refined) ==
    [threw |-> c.threw, lastIndex |-> c.lastIndex,
     classified |-> c.lineAnalysis,
     sandwiched |-> PassA(c.lineAnalysis),
     result |-> Statistics(refined, detectAIBlocks(refined))]

\* Line 505: the refiner is applied to the array of the line loop.
Refine(c) == Returned(c, applyContextualAnalysis(c.lineAnalysis))

analyzeCode(text, lang, li) == Refine(ClassifyLines(text, lang, li))

-----------------------------------------------------------------------------
(* githubAnalyzer.ts: the files of a repository *)

\* The most files a repository listing holds.
MaxFiles == 3

\* String.prototype.toLowerCase.
RECURSIVE LowerCase(_)
LowerCase(s) ==
    IF s = "" THEN ""
    ELSE (IF At(s, 1) \in Upper THEN ToLower[At(s, 1)] ELSE At(s, 1))
         \o LowerCase(SubSeq(s, 2, Len(s)))

\* /\.[^.]*$/
ExtensionRe == RegExp(Cat(<<L("."), Star(N({"."})), Eol>>), "")

\* filePath.toLowerCase().match(/\.[^.]*$/)?.[0], "" standing for undefined.
Matched(s, e) == IF e.found THEN SubSeq(s, e.index + 1, e.end) ELSE ""
Extension(filePath) ==
    Matched(LowerCase(filePath), Exec(ExtensionRe, LowerCase(filePath), 0))

\* The own keys of LANGUAGE_MAP and their values.  An extension starts with a
\* dot, so it never names a member the object inherits.
LANGUAGE_MAP == <<
    <<".js", "javascript">>, <<".jsx", "jsx">>, <<".ts", "typescript">>, <<".tsx", "tsx">>,
    <<".py", "python">>, <<".java", "java">>, <<".cpp", "cpp">>, <<".cc", "cpp">>,
    <<".cxx", "cpp">>, <<".c++", "cpp">>, <<".cs", "csharp">>, <<".go", "go">>,
    <<".rs", "rust">>, <<".php", "php">>, <<".rb", "ruby">>, <<".swift", "swift">>,
    <<".kt", "kotlin">>, <<".scala", "scala">>, <<".sh", "bash">>, <<".sql", "sql">>,
    <<".html", "html">>, <<".css", "css">>, <<".scss", "scss">>, <<".sass", "sass">>,
    <<".json", "json">>, <<".yaml", "yaml">>, <<".yml", "yaml">>, <<".xml", "xml">>,
    <<".md", "markdown">> >>

Mapped(ext) == {k \in DOMAIN LANGUAGE_MAP : LANGUAGE_MAP[k][1] = ext}

getLanguageFromPath(filePath) ==
    IF Extension(filePath) # "" /\ Mapped(Extension(filePath)) # {}
    THEN LANGUAGE_MAP[CHOOSE k \in Mapped(Extension(filePath)) : TRUE][2]
    ELSE "text"

codeExtensions ==
    {".js", ".jsx", ".ts", ".tsx", ".py", ".java", ".cpp", ".cc", ".cxx", ".c++", ".cs",
     ".go", ".rs", ".php", ".rb", ".swift", ".kt", ".scala"}

shouldAnalyzeFile(filePath) == Extension(filePath) \in codeExtensions

\* Lines 151-156: the files the loop is run on.
Analyzeable(file) ==
    /\ shouldAnalyzeFile(file.path)
    /\ file.size # 0
    /\ file.size < 1024 * 1024
    /\ file.download_url

\* What fetchFileContent does for a file: it throws, or returns the text.
Thrown == [ok |-> FALSE, text |-> ""]
Fetched(text) == [ok |-> TRUE, text |-> text]

\* The files of the listings: a step comment, two labelled prints, a debug
\* print, a file whose download fails, a file of white space, a file that is
\* no code and a file of size 0.
FilePool == {
    [path |-> "a.py", size |-> 14, download_url |-> TRUE, response |-> Fetched(StepLine)],
    [path |-> "lib/b.py", size |-> 49, download_url |-> TRUE,
     response |-> Fetched(Join(<<LabelLine, LabelLine>>))],
    [path |-> "src/D.JS", size |-> 8, download_url |-> TRUE, response |-> Fetched(DebugLine)],
    [path |-> "e.java", size |-> 200, download_url |-> TRUE, response |-> Thrown],
    [path |-> "f.ts", size |-> 2, download_url |-> TRUE, response |-> Fetched(SpaceLine)],
    [path |-> "notes.md", size |-> 14, download_url |-> TRUE, response |-> Fetched(StepLine)],
    [path |-> "g.py", size |-> 0, download_url |-> TRUE, response |-> Fetched(BlankLine)] }

Listings == UNION {[1..k -> FilePool] : k \in 0..MaxFiles}

\* Lines 162-167: the loop has not started.
Started(repositoryUrl, allFiles) ==
    [pc |-> "loop", repositoryUrl |-> repositoryUrl, allFiles |-> allFiles,
     analyzeableFiles |-> SelectSeq(allFiles, Analyzeable), i |-> 1,
     fileAnalyses |-> <<>>, totalLines |-> 0, totalAiLines |-> 0, totalHumanLines |-> 0,
     totalConfidence |-> <<0, 1>>, analyzedCount |-> 0]

\* Lines 196-198 counting the file all the same: a variant the statistics of
\* the repository must be told apart from.
FailedButCounted(r) == [r EXCEPT !.i = @ + 1, !.analyzedCount = @ + 1]

\* Lines 196-198: the failure is caught and logged, the loop goes on.
Failed(r) == [r EXCEPT !.i = @ + 1]

\* Line 179: an empty file is skipped.
SkippedFile(r) == [r EXCEPT !.i = @ + 1]

\* Lines 183-194: the analysis is kept and added to the totals.
Kept(r, file, lang, analysis) ==
    [r EXCEPT !.i = @ + 1,
              !.fileAnalyses = Append(@, [path |-> file.path, language |-> lang,
                                          analysis |-> analysis, size |-> file.size]),
              !.totalLines = @ + analysis.totalLines,
              !.totalAiLines = @ + analysis.aiLines,
              !.totalHumanLines = @ + analysis.humanLines,
              !.totalConfidence = QAdd(@, analysis.overallConfidence),
              !.analyzedCount = @ + 1]

\* Lines 181-198: analyzeCode has settled with a.
Settled(r, file, lang, a) ==
    [repo |-> IF a.threw THEN Failed(r) ELSE Kept(r, file, lang, a.result),
     lastIndex |-> a.lastIndex]

\* Lines 171-198: one turn of the loop, on a file whose download ends as its
\* response says.  li is the lastIndex of the matchers of aiDetection.ts.
AnalyzeFile(r, file, li) ==
    IF ~file.response.ok THEN [repo |-> Failed(r), lastIndex |-> li]
    ELSE IF Trim(file.response.text) = "" THEN [repo |-> SkippedFile(r), lastIndex |-> li]
    ELSE Settled(r, file, getLanguageFromPath(file.path),
                 analyzeCode(file.response.text, getLanguageFromPath(file.path), li))

\* Lines 201-216: the RepositoryAnalysis.
RepositoryAnalysis(r) ==
    [repositoryUrl |-> r.repositoryUrl,
     totalFiles |-> Len(r.allFiles),
     analyzedFiles |-> Len(r.fileAnalyses),
     files |-> r.fileAnalyses,
     overallStats |->
         [totalLines |-> r.totalLines, aiLines |-> r.totalAiLines,
          humanLines |-> r.totalHumanLines,
          aiPercentage |-> Percentage(r.totalAiLines, r.totalLines),
          humanPercentage |-> Percentage(r.totalHumanLines, r.totalLines),
          overallConfidence |->
              IF r.analyzedCount > 0
              THEN Q(r.totalConfidence[1], r.totalConfidence[2] * r.analyzedCount)
              ELSE <<0, 1>>]]

-----------------------------------------------------------------------------
(* The module in a running process *)

VARIABLES
    lastIndex,     \* lastIndex of the module-level matchers of the two rule tables
    pc,            \* where the call stands: "idle", "called", "done" or "threw"
    code,          \* the arguments of the call
    language,
    classified,    \* the LineAnalysis array as the line loop left it (line 502)
    sandwiched,    \* the array as the first loop of the refiner left it (line 439)
    result,        \* the AnalysisResult the call returned
    repo           \* the call of analyzeGitHubRepository in progress, if any

vars == <<lastIndex, pc, code, language, classified, sandwiched, result, repo>>

\* analyzeGitHubRepository has not been called.
NoRepo == [pc |-> "idle"]

NoResult == [totalLines |-> -1]

\* The module has been loaded and nothing has been called.
Init ==
    /\ lastIndex = FreshLastIndex
    /\ pc = "idle"
    /\ code = ""
    /\ language = ""
    /\ classified = <<>>
    /\ sandwiched = <<>>
    /\ result = NoResult
    /\ repo = NoRepo

\* analyzeCode is called and waits for its delay (lines 480-482).
Call(text, lang) ==
    /\ pc = "idle"
    /\ pc' = "called"
    /\ code' = text
    /\ language' = lang
    /\ UNCHANGED <<lastIndex, classified, sandwiched, result, repo>>

\* The delay is over: lines 484-534 run to the end, or to the TypeError of
\* line 276, which rejects the promise and leaves the matchers as they are.
Analyze ==
    /\ pc = "called"
    /\ \E r \in {analyzeCode(code, language, lastIndex)} :
           /\ lastIndex' = r.lastIndex
           /\ IF r.threw
              THEN /\ pc' = "threw"
                   /\ UNCHANGED <<classified, sandwiched, result>>
              ELSE /\ pc' = "done"
                   /\ classified' = r.classified
                   /\ sandwiched' = r.sandwiched
                   /\ result' = r.result
    /\ UNCHANGED <<code, language, repo>>

\* The caller has the outcome; the module stays loaded for the next call.
Finish ==
    /\ pc \in {"done", "threw"}
    /\ pc' = "idle"
    /\ code' = ""
    /\ language' = ""
    /\ classified' = <<>>
    /\ sandwiched' = <<>>
    /\ result' = NoResult
    /\ UNCHANGED <<lastIndex, repo>>

Next ==
    \/ \E text \in Texts, lang \in Languages : Call(text, lang)
    \/ Analyze
    \/ Finish

Spec == Init /\ [][Next]_vars

\* A freshly loaded module whose first call is one of the longer texts.
InitCtx ==
    /\ lastIndex = FreshLastIndex
    /\ pc = "called"
    /\ code \in CtxTexts
    /\ language = CtxLanguage
    /\ classified = <<>>
    /\ sandwiched = <<>>
    /\ result = NoResult
    /\ repo = NoRepo

NextCtx == Analyze

SpecCtx == InitCtx /\ [][NextCtx]_vars

\* A freshly loaded module and one call on a short text of CtxCorpus, for
\* the structure bias: up to MaxBiasLines lines.
MaxBiasLines == 4
BiasTexts == {Join(ls) : ls \in LinesUpTo(CtxCorpus, MaxBiasLines)}
InitBias ==
    /\ lastIndex = FreshLastIndex
    /\ pc = "called"
    /\ code \in BiasTexts
    /\ language = CtxLanguage
    /\ classified = <<>>
    /\ sandwiched = <<>>
    /\ result = NoResult
    /\ repo = NoRepo

SpecBias == InitBias /\ [][NextCtx]_vars

\* A freshly loaded module and one call on a text long enough for the
\* look-ahead of the run loop to end before the text does: a run of two AI
\* lines, then up to MaxLookLines lines, each blank, one of two AI lines or
\* a plain HUMAN line.
MaxLookLines == 5
LookCorpus == {BlankLine, StepLine, ReturnLine, PlainLine}
LookTexts == {Join(<<StepLine, ReturnLine>> \o ls) : ls \in LinesUpTo(LookCorpus, MaxLookLines)}
InitLook ==
    /\ lastIndex = FreshLastIndex
    /\ pc = "called"
    /\ code \in LookTexts
    /\ language = CtxLanguage
    /\ classified = <<>>
    /\ sandwiched = <<>>
    /\ result = NoResult
    /\ repo = NoRepo

SpecLook == InitLook /\ [][NextCtx]_vars

\* A freshly loaded module in which analyzeGitHubRepository has been called
\* and getAllFiles has returned a listing (lines 134-148).
RepositoryUrl == "https://github.com/owner/repo"
InitRepo ==
    /\ lastIndex = FreshLastIndex
    /\ pc = "idle"
    /\ code = ""
    /\ language = ""
    /\ classified = <<>>
    /\ sandwiched = <<>>
    /\ result = NoResult
    /\ repo \in {[pc |-> "listed", repositoryUrl |-> RepositoryUrl, allFiles |-> fs] :
                   fs \in Listings}

\* Lines 150-167: the files are filtered; without one the call throws.
Filter ==
    /\ repo.pc = "listed"
    /\ repo' = IF SelectSeq(repo.allFiles, Analyzeable) = <<>>
               THEN [pc |-> "threw", allFiles |-> repo.allFiles]
               ELSE Started(repo.repositoryUrl, repo.allFiles)
    /\ UNCHANGED <<lastIndex, pc, code, language, classified, sandwiched, result>>

\* Lines 170-199: one turn of the loop over the files.
AnalyzeNextFile ==
    /\ repo.pc = "loop"
    /\ repo.i <= Len(repo.analyzeableFiles)
    /\ \E step \in {AnalyzeFile(repo, repo.analyzeableFiles[repo.i], lastIndex)} :
           /\ repo' = step.repo
           /\ lastIndex' = step.lastIndex
    /\ UNCHANGED <<pc, code, language, classified, sandwiched, result>>

\* Lines 201-216: the loop is over and the RepositoryAnalysis is returned.
Return ==
    /\ repo.pc = "loop"
    /\ repo.i > Len(repo.analyzeableFiles)
    /\ repo' = [pc |-> "returned", allFiles |-> repo.allFiles,
                analysis |-> RepositoryAnalysis(repo)]
    /\ UNCHANGED <<lastIndex, pc, code, language, classified, sandwiched, result>>

NextRepo ==
    \/ Filter
    \/ AnalyzeNextFile
    \/ Return

SpecRepo == InitRepo /\ [][NextRepo]_vars

-----------------------------------------------------------------------------
(* What the properties below are stated with *)

Range(seq) == {seq[k] : k \in DOMAIN seq}
QEq(a, b) == a[1] * b[2] = b[1] * a[2]
IsBlank(s) == Trim(s) = ""

\* The call has returned its AnalysisResult.
HasReturned == pc = "done"
\* The lines of the returned lineAnalysis.
Final == result.lineAnalysis

-----------------------------------------------------------------------------
(* C1 *)

\* C1, as claimed: the AnalysisResult of a call depends on (code, language)
\* only, so that every call returns what the first call of a freshly loaded
\* module returns for the same arguments, whatever was analysed before it.
C1_ResultIndependentOfHistory ==
    HasReturned => result = analyzeCode(code, language, FreshLastIndex).result

-----------------------------------------------------------------------------
(* C2 *)

\* C2: in every returned AnalysisResult a non-blank line has a confidence
\* within [0.10, 0.95] and a blank line has confidence 0.5 and is HUMAN.
C2_ConfidenceBounds ==
    HasReturned =>
        \A k \in DOMAIN Final :
            IF IsBlank(Final[k].content)
            THEN QEq(Final[k].confidence, <<1, 2>>) /\ ~Final[k].isAI
            ELSE QLe(<<1, 10>>, Final[k].confidence) /\ QLe(Final[k].confidence, <<19, 20>>)

\* A result with a blank line and an AI line that the structure bias raised
\* from 0.9 to the cap.
C2_Witness ==
    /\ HasReturned
    /\ StructureScore(code) > 5
    /\ \E k \in DOMAIN Final : IsBlank(Final[k].content)
    /\ \E k \in DOMAIN Final :
           /\ Final[k].isAI
           /\ QEq(analyzeLine(Final[k].content, language, FreshLastIndex).analysis.confidence,
                  <<9, 10>>)
           /\ QEq(Final[k].confidence, <<19, 20>>)

-----------------------------------------------------------------------------
(* C3 *)

\* One unit in the last place of a number of lines 516-517 between 64 and 128.
Ulp == Unit(6 - (Precision - 1))

\* C3, as claimed: aiPercentage is within [0, 100], the two percentages add
\* up to exactly 100 when totalLines > 0, and both are 0 when totalLines = 0.
C3_PercentagesSumTo100 ==
    HasReturned =>
        /\ LessEq(Zero, result.aiPercentage) /\ LessEq(result.aiPercentage, Hundred)
        /\ result.totalLines > 0 =>
               NumAdd(result.aiPercentage, result.humanPercentage) = Hundred
        /\ result.totalLines = 0 =>
               result.aiPercentage = Zero /\ result.humanPercentage = Zero

\* C3, amended: aiPercentage is within [0, 100], the two percentages add up
\* to 100 within one unit in the last place when totalLines > 0, and both
\* are 0 when totalLines = 0.
C3_PercentagesSumWithinTolerance ==
    HasReturned =>
        /\ LessEq(Zero, result.aiPercentage) /\ LessEq(result.aiPercentage, Hundred)
        /\ result.totalLines > 0 =>
               /\ LessEq(Hundred, Add(NumAdd(result.aiPercentage, result.humanPercentage), Ulp))
               /\ LessEq(NumAdd(result.aiPercentage, result.humanPercentage), Add(Hundred, Ulp))
        /\ result.totalLines = 0 =>
               result.aiPercentage = Zero /\ result.humanPercentage = Zero

\* A result of three non-blank lines, one of them AI, whose percentages do
\* not add up to 100.
C3_Witness ==
    /\ HasReturned
    /\ result.totalLines = 3 /\ result.aiLines = 1 /\ result.humanLines = 2
    /\ NumAdd(result.aiPercentage, result.humanPercentage) # Hundred

-----------------------------------------------------------------------------
(* C4 *)

\* The non-blank lines from line first to line last of the returned array.
Members(first, last) == {k \in first..last : ~IsBlank(Final[k].content)}

\* C4: every returned block starts and ends on a non-blank line with
\* startLine < endLine, holds at least two non-blank lines, and all its
\* non-blank lines have the same final classification; a run of one line is
\* never a block.
C4_BlocksWellFormed ==
    HasReturned =>
        \A b \in DOMAIN result.aiBlocks :
            LET block == result.aiBlocks[b] IN
            /\ 1 <= block.startLine /\ block.startLine < block.endLine
            /\ block.endLine <= Len(Final)
            /\ {block.startLine, block.endLine} \subseteq Members(block.startLine, block.endLine)
            /\ Cardinality(Members(block.startLine, block.endLine)) >= 2
            /\ \A j, k \in Members(block.startLine, block.endLine) :
                   Final[j].isAI = Final[k].isAI

\* A result with a block that spans a blank line, and a non-blank line left
\* out of every block between two lines of the other classification.
C4_Witness ==
    /\ HasReturned
    /\ \E b \in DOMAIN result.aiBlocks :
           \E k \in result.aiBlocks[b].startLine..result.aiBlocks[b].endLine :
               IsBlank(Final[k].content)
    /\ \E k \in 2..(Len(Final) - 1) :
           /\ ~IsBlank(Final[k].content) /\ ~IsBlank(Final[k - 1].content)
           /\ ~IsBlank(Final[k + 1].content)
           /\ Final[k - 1].isAI # Final[k].isAI /\ Final[k + 1].isAI # Final[k].isAI
           /\ \A b \in DOMAIN result.aiBlocks :
                  k \notin result.aiBlocks[b].startLine..result.aiBlocks[b].endLine

-----------------------------------------------------------------------------
(* C5 *)

\* The classification of the lines of block b.
BlockIsAI(b) == Final[result.aiBlocks[b].startLine].isAI

\* The non-blank lines between block b and block b + 1, in line order.
Between(b) ==
    SelectSeq([j \in 1..Len(Final) |-> j],
              LAMBDA j : /\ j > result.aiBlocks[b].endLine
                         /\ j < result.aiBlocks[b + 1].startLine
                         /\ ~IsBlank(Final[j].content))

\* The classifications met from block b to block b + 1: that of block b, those
\* of the non-blank lines between the two blocks, that of block b + 1.
Chain(b) ==
    <<BlockIsAI(b)>>
    \o [k \in 1..Len(Between(b)) |-> Final[Between(b)[k]].isAI]
    \o <<BlockIsAI(b + 1)>>

\* C5, as claimed: no two consecutive blocks of the returned list have the
\* same classification.
C5_ConsecutiveBlocksDiffer ==
    HasReturned =>
        \A b \in 1..(Len(result.aiBlocks) - 1) : BlockIsAI(b) # BlockIsAI(b + 1)

\* C5, amended: the blocks are in line order and do not overlap, and from one
\* block to the next the classification changes at every step: block, each
\* non-blank line between the two (a run of one line, which is no block),
\* next block.  Two consecutive blocks have the same classification only
\* with an odd number of such lines between them, never when they are
\* adjacent.
C5_BlocksSeparatedByDroppedRuns ==
    HasReturned =>
        \A b \in 1..(Len(result.aiBlocks) - 1) :
            /\ result.aiBlocks[b].endLine < result.aiBlocks[b + 1].startLine
            /\ \A k \in 1..(Len(Chain(b)) - 1) : Chain(b)[k] # Chain(b)[k + 1]

\* A result with two consecutive AI blocks and one HUMAN line between them.
C5_Witness ==
    /\ HasReturned
    /\ \E b \in 1..(Len(result.aiBlocks) - 1) :
           /\ BlockIsAI(b) /\ BlockIsAI(b + 1)
           /\ Len(Chain(b)) = 3

-----------------------------------------------------------------------------
(* C6 *)

\* Line i is one the sandwich rule is about: neither first nor last, not
\* blank, HUMAN for the line classifier, without a creative marker, between
\* two lines the line classifier calls AI.
Sandwichable(i) ==
    /\ 1 < i /\ i < Len(classified)
    /\ ~IsBlank(classified[i].content)
    /\ ~classified[i].isAI
    /\ ~isCreativeHumanCode(classified[i].content)
    /\ classified[i - 1].isAI /\ classified[i + 1].isAI

\* C6: every such line is AI in the returned result, with a confidence of at
\* least 0.8 and the sandwich justification among its reasons.
C6_SandwichRule ==
    HasReturned =>
        \A i \in DOMAIN classified :
            Sandwichable(i) =>
                /\ Final[i].isAI
                /\ QLe(<<4, 5>>, Final[i].confidence)
                /\ SandwichReason \in Range(Final[i].reasons)

\* A result with a sandwiched line whose confidence was below 0.8 for the
\* line classifier.
C6_Witness ==
    /\ HasReturned
    /\ \E i \in DOMAIN classified :
           Sandwichable(i) /\ QLt(classified[i].confidence, <<4, 5>>)

-----------------------------------------------------------------------------
(* C7 *)

\* Line k is not blank and is AI when the second loop reaches it: the loop
\* changes no line before it reaches it, so this is what the first loop left.
ReachedAI(k) == ~IsBlank(sandwiched[k].content) /\ sandwiched[k].isAI

\* The first line of the run of such lines that line k belongs to.
RunStart(k) ==
    CHOOSE j \in 1..k : (\A m \in j..k : ReachedAI(m)) /\ (j = 1 \/ ~ReachedAI(j - 1))

\* The confidence of line k before the second loop, raised by 0.1 up to 0.95.
Boosted(k) == QMin(QAdd(sandwiched[k].confidence, <<1, 10>>), <<19, 20>>)

\* C7: in every run of consecutive non-blank lines that are AI when the
\* second loop reaches them, the first and the second line keep their
\* confidence and every later line gets min(confidence + 0.1, 0.95).
C7_RunExtensionBoost ==
    HasReturned =>
        \A k \in DOMAIN sandwiched :
            ReachedAI(k) =>
                QEq(Final[k].confidence,
                    IF k - RunStart(k) + 1 >= 3 THEN Boosted(k) ELSE sandwiched[k].confidence)

\* A result of five consecutive AI lines: the confidence of the third, the
\* fourth and the fifth has risen, that of the first two has not.
C7_Witness ==
    /\ HasReturned
    /\ Len(sandwiched) = 5
    /\ \A k \in 1..5 : ReachedAI(k)
    /\ \A k \in 1..2 : QEq(Final[k].confidence, sandwiched[k].confidence)
    /\ \A k \in 3..5 : QLt(sandwiched[k].confidence, Final[k].confidence)

-----------------------------------------------------------------------------
(* C8 *)

\* What the line classifier returns for a blank line.
NeutralEntry(line) ==
    [content |-> line, isAI |-> FALSE, confidence |-> <<1, 2>>,
     reasons |-> <<EmptyLineReason>>]

\* C8: a call on the empty string, or on blank lines only, returns: no
\* total, AI or HUMAN line, both percentages 0, overallConfidence 0.5, no
\* block, and one neutral entry for each raw line.
C8_BlankInput ==
    (/\ pc \in {"done", "threw"}
     /\ \A k \in DOMAIN Split(code) : IsBlank(Split(code)[k]))
    => /\ pc = "done"
       /\ result.totalLines = 0 /\ result.aiLines = 0 /\ result.humanLines = 0
       /\ result.aiPercentage = Zero /\ result.humanPercentage = Zero
       /\ QEq(result.overallConfidence, <<1, 2>>)
       /\ result.aiBlocks = <<>>
       /\ Final = [k \in 1..Len(Split(code)) |-> NeutralEntry(Split(code)[k])]

\* The empty string has been analysed by a module whose matchers earlier
\* calls have moved.
C8_Witness ==
    /\ HasReturned
    /\ code = ""
    /\ lastIndex # FreshLastIndex

-----------------------------------------------------------------------------
(* C9 *)

\* C9, as claimed: under "python" every line print("Original:", nums) is AI
\* in the returned result, with a confidence above 0.5 and the reasons of
\* the rules on educational variable names and on labeled output, wherever
\* the line stands and whatever was analysed before.
C9_LabelLineIsAI ==
    (HasReturned /\ language = "python") =>
        \A k \in DOMAIN Final :
            Final[k].content = LabelLine =>
                /\ Final[k].isAI
                /\ QLt(<<1, 2>>, Final[k].confidence)
                /\ {AI_PATTERNS[5].reason, AI_PATTERNS[6].reason} \subseteq Range(Final[k].reasons)

-----------------------------------------------------------------------------
(* C10 *)

\* C10, as claimed: analyzeCode never raises, whatever the code and the
\* language label.
C10_NeverRaises == pc # "threw"

-----------------------------------------------------------------------------
(* analyzeGitHubRepository *)

RECURSIVE Sum(_)
Sum(ns) == IF ns = <<>> THEN 0 ELSE Head(ns) + Sum(Tail(ns))

\* The call of analyzeGitHubRepository has returned its RepositoryAnalysis.
RepoReturned == repo.pc = "returned"
\* The files the loop was run on, in the order of the listing.
Offered == SelectSeq(repo.allFiles, Analyzeable)
\* The download of the file ended with an error.
FetchFailed(file) == ~file.response.ok
\* The file was downloaded and is not empty, so that it was analysed.
Succeeded(file) == file.response.ok /\ ~IsBlank(file.response.text)
NonBlankLines(text) == Len(SelectSeq(Split(text), NonBlank))

\* C11: a file whose download or analysis fails does not end the call of
\* analyzeGitHubRepository: the call throws only when the listing holds no
\* file to analyse, and what it returns is made of exactly the files that
\* were analysed, in the order of the listing: files names them, analyzedFiles
\* counts them, totalLines, aiLines and humanLines are the sums and
\* overallConfidence is the mean of their analyses.
C11_FailedFileIsSkipped ==
    /\ repo.pc = "threw" => Offered = <<>>
    /\ RepoReturned =>
          LET files == repo.analysis.files
              stats == repo.analysis.overallStats
              analysed == SelectSeq(Offered, Succeeded)
          IN  /\ [k \in DOMAIN files |-> files[k].path]
                    = [k \in DOMAIN analysed |-> analysed[k].path]
              /\ repo.analysis.analyzedFiles = Len(analysed)
              /\ stats.totalLines
                    = Sum([k \in DOMAIN analysed |-> NonBlankLines(analysed[k].response.text)])
              /\ stats.totalLines = Sum([k \in DOMAIN files |-> files[k].analysis.totalLines])
              /\ stats.aiLines = Sum([k \in DOMAIN files |-> files[k].analysis.aiLines])
              /\ stats.humanLines = Sum([k \in DOMAIN files |-> files[k].analysis.humanLines])
              /\ IF analysed = <<>> THEN stats.overallConfidence = <<0, 1>>
                 ELSE QEq(stats.overallConfidence,
                          QMean([k \in DOMAIN files |-> files[k].analysis.overallConfidence]))

\* The call has returned for a listing in which a file whose download failed
\* comes before a file that was analysed and found to hold an AI line.
C11_Witness ==
    /\ RepoReturned
    /\ \E j, k \in DOMAIN Offered :
          /\ j < k
          /\ FetchFailed(Offered[j])
          /\ Succeeded(Offered[k])
    /\ repo.analysis.overallStats.aiLines > 0

-----------------------------------------------------------------------------
(* The AnalysisResult *)

\* The raw lines of the text the call was given.
RawLines == Split(code)
Count(S) == Cardinality(S)
Confidences ==
    [k \in DOMAIN Final |-> IF IsBlank(Final[k].content) THEN <<0, 1>> ELSE Final[k].confidence]

-----------------------------------------------------------------------------
(* The refiner and the creative lines *)

\* The line classifier called line k HUMAN and the line carries a creative
\* human signal.
CreativeHuman(k) ==
    /\ ~IsBlank(classified[k].content)
    /\ ~classified[k].isAI
    /\ isCreativeHumanCode(classified[k].content)

\* Line k stands where one of the two rules of the refiner looks at it:
\* between two AI lines, or after two AI lines with an AI line following.
Exposed(k) ==
    /\ k - 2 \in DOMAIN classified /\ k + 1 \in DOMAIN classified
    /\ classified[k - 2].isAI /\ classified[k - 1].isAI /\ classified[k + 1].isAI

\* C13: a non-blank line the line classifier calls HUMAN and that carries a
\* creative human signal leaves the refiner as it entered it: still HUMAN,
\* with the same confidence and the same reasons, after the sandwich loop
\* and after the run loop.
C13_CreativeHumanKept ==
    HasReturned =>
        \A k \in DOMAIN classified :
            CreativeHuman(k) => sandwiched[k] = classified[k] /\ Final[k] = classified[k]

\* A call has returned for a text in which a creative HUMAN line follows two
\* AI lines and is followed by an AI line.
C13_Witness == HasReturned /\ \E k \in DOMAIN classified : CreativeHuman(k) /\ Exposed(k)

-----------------------------------------------------------------------------
(* The sandwich loop against a pass over a snapshot *)

\* The sandwich rule decided for line i from the array la alone.
FlipsInSnapshot(la, i) ==
    /\ i - 1 \in DOMAIN la /\ i + 1 \in DOMAIN la
    /\ ~IsBlank(la[i].content)
    /\ ~la[i].isAI /\ la[i - 1].isAI /\ la[i + 1].isAI
    /\ ~isCreativeHumanCode(la[i].content)

\* The pass that reads every neighbour in the array as it was before the pass.
SnapshotPass(la) ==
    [i \in DOMAIN la |->
        IF FlipsInSnapshot(la, i)
        THEN [la[i] EXCEPT !.isAI = TRUE,
                           !.confidence = QMax(@, <<4, 5>>),
                           !.reasons = Append(@, SandwichReason)]
        ELSE la[i]]

\* C14: the sandwich loop, which changes the array while it walks it, leaves
\* what a pass reading every neighbour from a snapshot taken before the pass
\* would leave: no flip of an earlier line makes a later line flip.
C14_SandwichLoopIsSnapshotPass == HasReturned => sandwiched = SnapshotPass(classified)

\* A call has returned for a text in which the sandwich loop has flipped a
\* line and the line after the next is a HUMAN line it has left alone.
C14_Witness ==
    /\ HasReturned
    /\ \E k \in DOMAIN classified :
          /\ k + 2 \in DOMAIN classified
          /\ ~classified[k].isAI /\ sandwiched[k].isAI
          /\ ~IsBlank(classified[k + 2].content) /\ ~sandwiched[k + 2].isAI

-----------------------------------------------------------------------------
(* The look-ahead of the run loop *)

\* Line k is a non-blank HUMAN line without creative signal when the run
\* loop reaches it, and the two lines before it are AI lines of one run: the
\* counter of the loop is at least 2.
ReachedAfterRun(k) ==
    /\ ~IsBlank(sandwiched[k].content)
    /\ ~sandwiched[k].isAI
    /\ ~isCreativeHumanCode(sandwiched[k].content)
    /\ k - 2 \in DOMAIN sandwiched
    /\ ReachedAI(k - 1) /\ ReachedAI(k - 2)

\* The non-blank lines among the lines k+1 .. j.
NonBlankIn(k, j) == {m \in (k + 1)..j : ~IsBlank(sandwiched[m].content)}
\* One of the next three non-blank lines after line k is an AI line.
AIAmongNextNonBlank(k) ==
    \E j \in DOMAIN sandwiched :
        /\ j > k /\ ReachedAI(j)
        /\ Cardinality(NonBlankIn(k, j)) <= 3
\* One of the next three entries after line k is an AI line.
AIAmongNextEntries(k) ==
    \E j \in DOMAIN sandwiched : j > k /\ j <= k + 3 /\ ReachedAI(j)

\* What the run loop makes of a line it flips.
Extended(line) ==
    [line EXCEPT !.isAI = TRUE,
                 !.confidence = QMax(@, <<3, 4>>),
                 !.reasons = Append(@, ExtendedReason)]

\* C15: a HUMAN line without creative signal that the run loop reaches with
\* a counter of at least 2 is flipped (AI, confidence max(current, 0.75),
\* the extended-block reason appended) exactly when one of the next three
\* non-blank lines after it is an AI line, blank lines not counting for the
\* three.
C15_LookAheadSkipsBlankLines ==
    HasReturned =>
        \A k \in DOMAIN sandwiched :
            ReachedAfterRun(k) =>
                Final[k] = IF AIAmongNextNonBlank(k) THEN Extended(sandwiched[k])
                           ELSE sandwiched[k]

\* What the loop does: the three entries after the line are looked at,
\* blank ones included.
LookAheadCountsEntries ==
    HasReturned =>
        \A k \in DOMAIN sandwiched :
            ReachedAfterRun(k) =>
                Final[k] = IF AIAmongNextEntries(k) THEN Extended(sandwiched[k])
                           ELSE sandwiched[k]

-----------------------------------------------------------------------------
(* The counter of the run loop after a HUMAN line *)

\* Line k is not blank and is HUMAN when the run loop reaches it.
ReachedHuman(k) == ~IsBlank(sandwiched[k].content) /\ ~sandwiched[k].isAI
\* The run loop has flipped line k.
FlippedByRunLoop(k) == ReachedHuman(k) /\ Final[k].isAI
\* The lines k+1 .. j are AI lines when the run loop reaches them.
RunAfter(k, j) == \A m \in (k + 1)..j : m \in DOMAIN sandwiched /\ ReachedAI(m)

\* C16: the counter of the run loop is 0 after every non-blank line that is
\* HUMAN when reached, flipped or not.  Such a line is left as it was or
\* flipped with confidence max(current, 0.75), never boosted, and it is
\* flipped only after two lines that were AI when reached, so that a flipped
\* line does not count for the line after it; the first and the second AI
\* line after it keep their confidence, and the third and later ones of the
\* run get min(confidence + 0.1, 0.95).
C16_CounterResetAfterHuman ==
    HasReturned =>
        \A k \in DOMAIN sandwiched :
            ReachedHuman(k) =>
                /\ Final[k] \in {sandwiched[k], Extended(sandwiched[k])}
                /\ FlippedByRunLoop(k) =>
                      /\ k - 2 \in DOMAIN sandwiched
                      /\ ReachedAI(k - 1) /\ ReachedAI(k - 2)
                /\ \A j \in DOMAIN sandwiched :
                      (j > k /\ RunAfter(k, j)) =>
                          QEq(Final[j].confidence,
                              IF j - k >= 3 THEN Boosted(j) ELSE sandwiched[j].confidence)

\* The run loop has flipped line k and has left alone the HUMAN line after
\* it, which an AI line follows.
FlipNotCounted(k) ==
    /\ FlippedByRunLoop(k)
    /\ k + 2 \in DOMAIN sandwiched
    /\ ReachedHuman(k + 1) /\ ~isCreativeHumanCode(sandwiched[k + 1].content)
    /\ ReachedAI(k + 2)
    /\ Final[k + 1] = sandwiched[k + 1]

\* Three AI lines follow line k, which was HUMAN when reached: the first
\* two have kept their confidence, the third has risen.
BoostFromThird(k) ==
    /\ ReachedHuman(k)
    /\ RunAfter(k, k + 3)
    /\ QEq(Final[k + 2].confidence, sandwiched[k + 2].confidence)
    /\ QLt(sandwiched[k + 3].confidence, Final[k + 3].confidence)

\* A call has returned for a text with both cases.
C16_Witness ==
    /\ HasReturned
    /\ \E k \in DOMAIN sandwiched : FlipNotCounted(k)
    /\ \E k \in DOMAIN sandwiched : BoostFromThird(k)

-----------------------------------------------------------------------------
(* The reasons of a line *)

Distinct(seq) == \A a, b \in DOMAIN seq : seq[a] = seq[b] => a = b

\* C17: the reasons of every entry of a returned lineAnalysis are pairwise
\* different texts, also for a line on which a general rule and a rule of
\* the language fire.
C17_ReasonsDistinct ==
    HasReturned => \A k \in DOMAIN Final : Distinct(Final[k].reasons)

-----------------------------------------------------------------------------
(* The structure-bias adjustment *)

\* What analyzeLine returns for the lines from line i on, in a module whose
\* matchers stand at li when line i is analysed.
RECURSIVE RawFrom(_, _, _)
RawNext(lines, i, r) == <<r.analysis>> \o RawFrom(lines, i + 1, r.lastIndex)
RawFrom(lines, i, li) ==
    IF i > Len(lines) THEN <<>> ELSE RawNext(lines, i, analyzeLine(lines[i], language, li))

\* The entries of the line classifier for the text of the call, which a
\* freshly loaded module is given, and the structure bias of the text in
\* tenths.
Raw == {RawFrom(Split(code), 1, FreshLastIndex)}
Bias == {StructureScore(code)}
Raised(line) == [line EXCEPT !.confidence = QMin(QAdd(@, <<1, 10>>), <<19, 20>>)]

\* C18: the array the line loop leaves is the array of the entries of the
\* line classifier with, when the structure bias is above 0.5, the confidence
\* of every AI entry replaced by min(confidence + 0.1, 0.95); with a bias of
\* 0.5 or less it is that array unchanged; HUMAN and blank entries and every
\* classification are as the line classifier returned them.
C18_StructureAdjustment ==
    HasReturned =>
        \A raw \in Raw, bias \in Bias :
            /\ DOMAIN classified = DOMAIN raw
            /\ \A k \in DOMAIN raw :
                  /\ classified[k].isAI = raw[k].isAI
                  /\ classified[k] = IF bias > 5 /\ raw[k].isAI THEN Raised(raw[k]) ELSE raw[k]

\* A call has returned for a text whose bias is above 0.5, with an AI line
\* whose confidence the adjustment has raised, a HUMAN line whose confidence
\* is below 0.95 and a blank line.
C18_Witness ==
    /\ HasReturned
    /\ \E raw \in Raw, bias \in Bias :
          /\ bias > 5
          /\ \E k \in DOMAIN raw :
                raw[k].isAI /\ QLt(raw[k].confidence, classified[k].confidence)
          /\ \E k \in DOMAIN raw :
                /\ ~IsBlank(raw[k].content)
                /\ ~raw[k].isAI /\ QLt(raw[k].confidence, <<19, 20>>)
          /\ \E k \in DOMAIN raw : IsBlank(raw[k].content)

-----------------------------------------------------------------------------
(* The refiner never takes back *)

\* Entry b is entry a or entry a moved toward AI: the same line, AI if a is,
\* with a confidence that is not lower.
NotTakenBack(a, b) ==
    /\ b.content = a.content
    /\ a.isAI => b.isAI
    /\ QLe(a.confidence, b.confidence)
AICount(la) == Cardinality({k \in DOMAIN la : la[k].isAI})

\* C19: the refiner moves entries toward AI only.  The array has the same
\* length and the same lines in the same order before the sandwich loop,
\* after it and after the run loop; an AI entry stays AI, no confidence
\* goes down, a blank entry is not changed at all; so there are at least as
\* many AI entries after as before.
C19_RefinerMonotone ==
    HasReturned =>
        /\ DOMAIN sandwiched = DOMAIN classified
        /\ DOMAIN Final = DOMAIN classified
        /\ \A k \in DOMAIN classified :
              /\ NotTakenBack(classified[k], sandwiched[k])
              /\ NotTakenBack(sandwiched[k], Final[k])
              /\ IsBlank(classified[k].content) =>
                    sandwiched[k] = classified[k] /\ Final[k] = classified[k]
        /\ AICount(classified) <= AICount(sandwiched)
        /\ AICount(sandwiched) <= AICount(Final)

\* A call has returned for a text with a blank line in which the sandwich
\* loop has flipped a line, the run loop has flipped another and has raised
\* the confidence of an AI line.
C19_Witness ==
    /\ HasReturned
    /\ \E k \in DOMAIN classified : IsBlank(classified[k].content)
    /\ \E k \in DOMAIN classified : ~classified[k].isAI /\ sandwiched[k].isAI
    /\ \E k \in DOMAIN classified : ~sandwiched[k].isAI /\ Final[k].isAI
    /\ \E k \in DOMAIN classified :
          sandwiched[k].isAI /\ QLt(sandwiched[k].confidence, Final[k].confidence)

=============================================================================
